---- MODULE Spec2Model ----
(***************************************************************************)
(* Model of the backend's utility and data layer:                          *)
(*   - asyncHandler   (src/src/utils/asyncHandler.js)                      *)
(*   - ApiError       (src/src/utils/ApiError.js)                          *)
(*   - the User model (src/unnamed/part_000): schema setters, unique       *)
(*     indexes, the pre-save hashing hook, isPasswordCorrect and the two   *)
(*     token generators.                                                   *)
(* JavaScript strings are modelled as sequences of one-token strings, so   *)
(* that trimming, lower-casing and the bcrypt "$2b$<cost>$<salt><digest>"  *)
(* layout are computed rather than assumed.                                *)
(***************************************************************************)
EXTENDS Naturals, Sequences, FiniteSets, TLC

VARIABLES
    \* ---- asyncHandler, one entry per in-flight request ----
    ahPc,        \* position of the wrapper call: idle, threw, pending,
                 \* fulfilled, queued (catch reaction queued), caught
    ahErr,       \* the value the handler fails with (NoErr when it does not)
    ahNext,      \* the invocations of the continuation next, in order
    ahEscaped,   \* the exception that left the wrapper's call synchronously
    \* ---- ApiError ----
    errArgs,     \* the constructor's arguments
    errObj,      \* the constructed instance (NoObj before construction)
    \* ---- token generators ----
    tokUser,     \* the User record the methods are called on
    tokEnv,      \* process.env
    tokSigned,   \* the last jwt.sign call: payload, secret, options
    \* ---- User documents and the store ----
    doc,         \* the in-memory documents
    store,       \* the users collection: _id -> persisted record (NoRec if none)
    saveErr,     \* what the save() last awaited on a document surfaced to its
                 \* caller ("none" once the document was touched again)
    ghost        \* history of each document: the plaintext last assigned and
                 \* the plaintext that was current when the record was written

ahVars   == <<ahPc, ahErr, ahNext, ahEscaped>>
errVars  == <<errArgs, errObj>>
tokVars  == <<tokUser, tokEnv, tokSigned>>
userVars == <<doc, store, saveErr, ghost>>
vars     == <<ahVars, errVars, tokVars, userVars>>

-----------------------------------------------------------------------------
(* asyncHandler                                                            *)

Reqs   == {"r1", "r2"}
NoErr  == "undefined"
Errors == {"e1", "e2"}

\* What the handler passed to asyncHandler does when it is invoked.
HandlerKinds == {"syncReturn", "syncThrow", "asyncResolve", "asyncReject"}

\* One invocation of the continuation.
NextCall(who, arg) == [by |-> who, arg |-> arg]

\* The handler itself may use the continuation it is handed.
HandlerNextCalls(callsNext) ==
    IF callsNext THEN <<NextCall("handler", NoErr)>> ELSE <<>>

\* .catch((err) => next(err)): the arguments of the wrapper's calls of next
\* when the promise rejects with err.
\* (Variant: a reaction that answers by itself and never calls next, as the
\* commented-out second implementation does.)
OnRejectedSwallow(err) == <<>>
OnRejected(err) == <<NextCall("wrapper", err)>>

\* No fulfilment reaction is attached: the wrapper's calls of next on success.
\* (Variant: .then(() => next()) in front of the catch.)
OnFulfilledCallsNext == <<NextCall("wrapper", NoErr)>>
OnFulfilled == <<>>

IdleAH ==
    /\ ahPc = [r \in Reqs |-> "idle"]
    /\ ahErr = [r \in Reqs |-> NoErr]
    /\ ahNext = [r \in Reqs |-> <<>>]
    /\ ahEscaped = [r \in Reqs |-> NoErr]

\* asyncHandler(h)(req, res, next) up to the return of the arrow function.
Call(r, kind, e, callsNext) ==
    /\ ahPc[r] = "idle"
    /\ LET own == HandlerNextCalls(callsNext) IN
       CASE kind = "syncThrow" ->
              \* requestHandler(req, res, next) is evaluated before
              \* Promise.resolve receives a value: the exception leaves the
              \* arrow function and no promise, hence no catch, exists.
              /\ ahPc' = [ahPc EXCEPT ![r] = "threw"]
              /\ ahErr' = [ahErr EXCEPT ![r] = e]
              /\ ahEscaped' = [ahEscaped EXCEPT ![r] = e]
              /\ ahNext' = [ahNext EXCEPT ![r] = own]
         [] kind = "syncReturn" ->
              \* Promise.resolve(value): already fulfilled
              /\ ahPc' = [ahPc EXCEPT ![r] = "fulfilled"]
              /\ ahNext' = [ahNext EXCEPT ![r] = own \o OnFulfilled]
              /\ UNCHANGED <<ahErr, ahEscaped>>
         [] kind = "asyncResolve" ->
              /\ ahPc' = [ahPc EXCEPT ![r] = "pending"]
              /\ ahNext' = [ahNext EXCEPT ![r] = own]
              /\ UNCHANGED <<ahErr, ahEscaped>>
         [] kind = "asyncReject" ->
              /\ ahPc' = [ahPc EXCEPT ![r] = "pending"]
              /\ ahErr' = [ahErr EXCEPT ![r] = e]
              /\ ahNext' = [ahNext EXCEPT ![r] = own]
              /\ UNCHANGED ahEscaped
    /\ UNCHANGED <<errVars, tokVars, userVars>>

\* A handler suspended on an await resumes and uses the continuation itself.
HandlerCallsNextLater(r) ==
    /\ ahPc[r] = "pending"
    /\ ahNext[r] = <<>>
    /\ ahNext' = [ahNext EXCEPT ![r] = <<NextCall("handler", NoErr)>>]
    /\ UNCHANGED <<ahPc, ahErr, ahEscaped, errVars, tokVars, userVars>>

\* The handler's promise fulfils.
Fulfil(r) ==
    /\ ahPc[r] = "pending"
    /\ ahErr[r] = NoErr
    /\ ahPc' = [ahPc EXCEPT ![r] = "fulfilled"]
    /\ ahNext' = [ahNext EXCEPT ![r] = @ \o OnFulfilled]
    /\ UNCHANGED <<ahErr, ahEscaped, errVars, tokVars, userVars>>

\* The handler's promise rejects with ahErr[r]: the catch reaction is queued.
Reject(r) ==
    /\ ahPc[r] = "pending"
    /\ ahErr[r] # NoErr
    /\ ahPc' = [ahPc EXCEPT ![r] = "queued"]
    /\ UNCHANGED <<ahErr, ahNext, ahEscaped, errVars, tokVars, userVars>>

\* The microtask of the catch reaction runs.
RunCatch(r) ==
    /\ ahPc[r] = "queued"
    /\ ahPc' = [ahPc EXCEPT ![r] = "caught"]
    /\ ahNext' = [ahNext EXCEPT ![r] = @ \o OnRejected(ahErr[r])]
    /\ UNCHANGED <<ahErr, ahEscaped, errVars, tokVars, userVars>>

NextAH ==
    \/ \E r \in Reqs, kind \in HandlerKinds, e \in Errors, callsNext \in BOOLEAN :
          Call(r, kind, e, callsNext)
    \/ \E r \in Reqs : HandlerCallsNextLater(r)
    \/ \E r \in Reqs : Fulfil(r)
    \/ \E r \in Reqs : Reject(r)
    \/ \E r \in Reqs : RunCatch(r)

-----------------------------------------------------------------------------
(* ApiError                                                                *)

StatusCodes == {400, 404, 500}
Messages    == {"", "User not found"}
ErrorLists  == {<<>>, <<"username is required">>}
Stacks      == {"", "Error: at handler (user.controller.js)"}

\* A constructor call. has* = FALSE models an omitted (undefined) argument,
\* which is what makes a default parameter value apply.
ApiErrorArgs ==
    { a \in [statusCode : StatusCodes,
             hasMessage : BOOLEAN, message : Messages,
             hasErrors : BOOLEAN, errors : ErrorLists,
             hasStack : BOOLEAN, stack : Stacks] :
        /\ (~a.hasMessage => a.message = "")
        /\ (~a.hasErrors => a.errors = <<>>)
        /\ (~a.hasStack => a.stack = "") }

DefaultMessage == "Something went wrong"
DefaultErrors  == <<>>
DefaultStack   == ""

\* Error.captureStackTrace(this, this.constructor)
CapturedStack == "Error: at <construction site>"

\* JavaScript truthiness of a string
Truthy(str) == str # ""

\* (Variant: a constructor that ignores its stack argument.)
ApiErrorAlwaysCaptures(a) ==
    LET message == IF a.hasMessage THEN a.message ELSE DefaultMessage
        errors  == IF a.hasErrors THEN a.errors ELSE DefaultErrors
    IN  [built |-> TRUE, statusCode |-> a.statusCode, data |-> "null",
         message |-> message, success |-> FALSE, errors |-> errors,
         stack |-> CapturedStack]
\* new ApiError(statusCode, message, errors, stack)
ApiError(a) ==
    LET message == IF a.hasMessage THEN a.message ELSE DefaultMessage
        errors  == IF a.hasErrors THEN a.errors ELSE DefaultErrors
        stack   == IF a.hasStack THEN a.stack ELSE DefaultStack
    IN  [built |-> TRUE, statusCode |-> a.statusCode, data |-> "null",
         message |-> message, success |-> FALSE, errors |-> errors,
         stack |-> IF Truthy(stack) THEN stack ELSE CapturedStack]

NoObj ==
    [built |-> FALSE, statusCode |-> 0, data |-> "null", message |-> "",
     success |-> FALSE, errors |-> <<>>, stack |-> ""]

IdleErr ==
    /\ errArgs = CHOOSE a \in ApiErrorArgs :
                    a.statusCode = 500 /\ ~a.hasMessage /\ ~a.hasErrors /\ ~a.hasStack
    /\ errObj = NoObj

InitErr ==
    /\ errArgs \in ApiErrorArgs
    /\ errObj = NoObj

Construct ==
    /\ ~errObj.built
    /\ errObj' = ApiError(errArgs)
    /\ UNCHANGED <<errArgs, ahVars, tokVars, userVars>>

\* The instance is dropped and another call is prepared.
NewArgs ==
    /\ errObj.built
    /\ errArgs' \in ApiErrorArgs
    /\ errObj' = NoObj
    /\ UNCHANGED <<ahVars, tokVars, userVars>>

NextErr == Construct \/ NewArgs

-----------------------------------------------------------------------------
(* generateAccessToken / generateRefreshToken                              *)

UserIds    == {"u1", "u2"}
TokEmails  == {"a@x.com", "b@x.com"}
TokNames   == {"alice", "bob"}
Secrets    == {"secret-A", "secret-B"}
Expiries   == {"1d", "10d"}

TokUsers ==
    [_id : UserIds, email : TokEmails, username : TokNames,
     fullName : {"Alice A"}, password : {"$2b$10$hash"},
     refreshToken : {"", "old-refresh-token"}]

Envs ==
    [ACCESS_TOKEN_SECRET : Secrets, ACCESS_TOKEN_EXPIRY : Expiries,
     REFRESH_TOKEN_SECRET : Secrets, REFRESH_TOKEN_EXPIRY : Expiries]

\* The arguments of one jwt.sign(payload, secret, {expiresIn}) call.
Sign(kind, payload, secret, expiresIn) ==
    [kind |-> kind, payload |-> payload, secret |-> secret, expiresIn |-> expiresIn]

NoToken == Sign("none", [k \in {} |-> ""], "", "")

\* (Variant: the refresh token signed with the access token's secret.)
generateRefreshTokenWithAccessSecret(u, env) ==
    Sign("refresh",
         [k \in {"_id"} |-> u._id],
         env.ACCESS_TOKEN_SECRET,
         env.REFRESH_TOKEN_EXPIRY)

generateAccessToken(u, env) ==
    Sign("access",
         [k \in {"_id", "email", "username", "fullName"} |-> u[k]],
         env.ACCESS_TOKEN_SECRET,
         env.ACCESS_TOKEN_EXPIRY)

generateRefreshToken(u, env) ==
    Sign("refresh",
         [k \in {"_id"} |-> u._id],
         env.REFRESH_TOKEN_SECRET,
         env.REFRESH_TOKEN_EXPIRY)

IdleTok ==
    /\ tokUser = CHOOSE u \in TokUsers : TRUE
    /\ tokEnv = CHOOSE e \in Envs : TRUE
    /\ tokSigned = NoToken

InitTok ==
    /\ tokUser \in TokUsers
    /\ tokEnv \in Envs
    /\ tokSigned = NoToken

CallGenerateAccessToken ==
    /\ tokSigned' = generateAccessToken(tokUser, tokEnv)
    /\ UNCHANGED <<tokUser, tokEnv, ahVars, errVars, userVars>>

CallGenerateRefreshToken ==
    /\ tokSigned' = generateRefreshToken(tokUser, tokEnv)
    /\ UNCHANGED <<tokUser, tokEnv, ahVars, errVars, userVars>>

NextTok == CallGenerateAccessToken \/ CallGenerateRefreshToken


-----------------------------------------------------------------------------
(* User schema: setters                                                    *)

LowerOf(c) == IF c = "A" THEN "a" ELSE IF c = "X" THEN "x" ELSE c

\* String.prototype.toLowerCase
ToLowerCase(str) == [i \in 1..Len(str) |-> LowerOf(str[i])]

\* String.prototype.trim
RECURSIVE TrimLeft(_)
TrimLeft(str) ==
    IF str # <<>> /\ Head(str) = " " THEN TrimLeft(Tail(str)) ELSE str

RECURSIVE TrimRight(_)
TrimRight(str) ==
    IF str # <<>> /\ str[Len(str)] = " "
    THEN TrimRight(SubSeq(str, 1, Len(str) - 1))
    ELSE str

Trim(str) == TrimRight(TrimLeft(str))

\* (Variant: the username setter without lowercase: true.)
SetUsernameNoLowercase(raw) == Trim(raw)

\* username: { lowercase: true, trim: true }
SetUsername(raw) == Trim(ToLowerCase(raw))

\* email: { lowercase: true, trim: true }
SetEmail(raw) == Trim(ToLowerCase(raw))

\* fullName: { trim: true }
SetFullName(raw) == Trim(raw)

-----------------------------------------------------------------------------
(* bcrypt                                                                  *)

Cost  == "10"
Salts == {"s1", "s2"}

\* bcrypt.hash(data, 10) with the salt the library drew: "$2b$10$" salt digest.
\* The digest is one-way and determined by (salt, data); it is written as the
\* data itself behind the salt, and only BcryptCompare ever looks into it.
BcryptHash(data, salt) == <<"$2b$", Cost, salt>> \o data

IsBcryptHash(str) == Len(str) > 3 /\ str[1] = "$2b$" /\ str[2] = Cost /\ str[3] \in Salts

\* bcrypt.compare(data, encrypted): re-hash data with the salt read from
\* encrypted and compare the two strings.
BcryptCompare(data, encrypted) ==
    /\ Len(encrypted) >= 3
    /\ encrypted[1] = "$2b$"
    /\ BcryptHash(data, encrypted[3]) = encrypted

\* How many times a string went through BcryptHash.
RECURSIVE HashDepth(_)
HashDepth(str) ==
    IF Len(str) > 3 /\ str[1] = "$2b$" THEN 1 + HashDepth(SubSeq(str, 4, Len(str))) ELSE 0


-----------------------------------------------------------------------------
(* User documents, save() with the pre-save hook, and the users collection *)

Docs         == {"d1", "d2"}
RawUsernames == {<<"A">>, <<" ", "a">>, <<"b">>}
RawEmails    == {<<"X">>, <<"y">>}
Plain        == {<<"p">>}
\* What a login may present: the plaintexts and a wrong guess.
Candidates   == Plain \cup {<<"q">>}
FullName     == <<"F">>

\* Longest chain of hashes of hashes the model follows.
MaxHashDepth == 2

NoStr == <<>>

\* A document object that was not constructed yet.
NoDoc ==
    [pc |-> "absent", isNew |-> TRUE, username |-> NoStr, email |-> NoStr,
     fullName |-> NoStr, password |-> NoStr, modified |-> {}]

\* No record under this _id.
NoRec ==
    [present |-> FALSE, username |-> NoStr, email |-> NoStr,
     fullName |-> NoStr, password |-> NoStr]

NoGhost == [plain |-> NoStr, storedPlain |-> NoStr]

Paths == {"username", "email", "fullName", "password"}

\* this.isModified(path)
isModified(d, path) == path \in doc[d].modified

\* userSchema.methods.isPasswordCorrect, on a record
isPasswordCorrect(rec, password) == BcryptCompare(password, rec.password)

\* The record a write of document d asks the store to hold: an insert of the
\* whole document when it is new, otherwise a $set of the modified paths.
Written(d) ==
    [present |-> TRUE,
     username |-> IF doc[d].isNew \/ isModified(d, "username")
                  THEN doc[d].username ELSE store[d].username,
     email    |-> IF doc[d].isNew \/ isModified(d, "email")
                  THEN doc[d].email ELSE store[d].email,
     fullName |-> IF doc[d].isNew \/ isModified(d, "fullName")
                  THEN doc[d].fullName ELSE store[d].fullName,
     password |-> IF doc[d].isNew \/ isModified(d, "password")
                  THEN doc[d].password ELSE store[d].password]

\* unique: true on username and on email: the index rejects a write that would
\* give two records the same key.
DuplicateKey(d, rec) ==
    \E o \in Docs \ {d} :
        /\ store[o].present
        /\ (store[o].username = rec.username \/ store[o].email = rec.email)

IdleUser ==
    /\ doc = [d \in Docs |-> NoDoc]
    /\ store = [d \in Docs |-> NoRec]
    /\ saveErr = [d \in Docs |-> "none"]
    /\ ghost = [d \in Docs |-> NoGhost]

InitUser == IdleUser

\* new User({username, email, fullName, avatar, password}): a registration attempt.
NewUser(d, u, e, p) ==
    /\ doc[d].pc = "absent"
    /\ doc' = [doc EXCEPT ![d] =
                 [pc |-> "idle", isNew |-> TRUE,
                  username |-> SetUsername(u), email |-> SetEmail(e),
                  fullName |-> SetFullName(FullName), password |-> p,
                  modified |-> Paths]]
    /\ ghost' = [ghost EXCEPT ![d].plain = p]
    /\ UNCHANGED <<store, saveErr, ahVars, errVars, tokVars>>

\* user.password = p
AssignPassword(d, p) ==
    /\ doc[d].pc = "idle"
    /\ doc' = [doc EXCEPT ![d].password = p,
                          ![d].modified = IF p # doc[d].password
                                          THEN @ \cup {"password"} ELSE @]
    /\ ghost' = [ghost EXCEPT ![d].plain = p]
    /\ saveErr' = [saveErr EXCEPT ![d] = "none"]
    /\ UNCHANGED <<store, ahVars, errVars, tokVars>>

\* user.username = u
AssignUsername(d, u) ==
    /\ doc[d].pc = "idle"
    /\ SetUsername(u) # doc[d].username
    /\ doc' = [doc EXCEPT ![d].username = SetUsername(u),
                          ![d].modified =
                              IF ~doc[d].isNew /\ SetUsername(u) = store[d].username
                              THEN @ \ {"username"}   \* back to the saved value
                              ELSE @ \cup {"username"}]
    /\ saveErr' = [saveErr EXCEPT ![d] = "none"]
    /\ UNCHANGED <<store, ghost, ahVars, errVars, tokVars>>

\* (Variants: the test of line 80 without its negation, and a hook without
\* the test.)
HookHashesInverted(d) == ~isModified(d, "password")
HookHashesAlways(d) == TRUE

\* Line 80 of the hook: which of its two branches a save takes.
HookHashes(d) == isModified(d, "password")

\* user.save() up to the hook's first suspension: either next() at once and
\* the write is sent, or bcrypt.hash is awaited.
Save(d) ==
    /\ doc[d].pc = "idle"
    /\ HashDepth(doc[d].password) < MaxHashDepth
    /\ doc' = [doc EXCEPT ![d].pc = IF HookHashes(d) THEN "hashing" ELSE "writing"]
    /\ saveErr' = [saveErr EXCEPT ![d] = "none"]
    /\ UNCHANGED <<store, ghost, ahVars, errVars, tokVars>>

\* bcrypt draws a 128-bit random salt for every hash, so the new string is
\* never the one already at rest for the same user. Salts are interchangeable
\* otherwise, and the first fresh one stands for the draw.
FreshSalt(d) ==
    CHOOSE salt \in Salts : BcryptHash(doc[d].password, salt) # store[d].password

\* bcrypt.hash resolves: this.password = <hash>; next(); the write is sent.
HashDone(d) ==
    /\ doc[d].pc = "hashing"
    /\ doc' = [doc EXCEPT ![d].password = BcryptHash(doc[d].password, FreshSalt(d)),
                          ![d].modified = @ \cup {"password"},
                          ![d].pc = "writing"]
    /\ UNCHANGED <<store, saveErr, ghost, ahVars, errVars, tokVars>>

\* (Variant: a hook that catches the failure and calls next() all the same.)
HashFailureSwallowed(d) == [pc |-> "writing", err |-> "none"]

\* What the hook makes of a rejected bcrypt.hash: the async function's promise
\* rejects, next() is never reached, and save() rejects with the failure.
HashFailure(d) == [pc |-> "idle", err |-> "hashError"]

\* bcrypt.hash rejects.
HashFail(d) ==
    /\ doc[d].pc = "hashing"
    /\ doc' = [doc EXCEPT ![d].pc = HashFailure(d).pc]
    /\ saveErr' = [saveErr EXCEPT ![d] = HashFailure(d).err]
    /\ UNCHANGED <<store, ghost, ahVars, errVars, tokVars>>

\* The store applies the write: the document is persisted and reset.
StoreAccept(d) ==
    /\ doc[d].pc = "writing"
    /\ ~DuplicateKey(d, Written(d))
    /\ store' = [store EXCEPT ![d] = Written(d)]
    /\ doc' = [doc EXCEPT ![d].pc = "idle", ![d].isNew = FALSE, ![d].modified = {}]
    /\ saveErr' = [saveErr EXCEPT ![d] = "ok"]
    /\ ghost' = [ghost EXCEPT ![d].storedPlain = ghost[d].plain]
    /\ UNCHANGED <<ahVars, errVars, tokVars>>

\* The store rejects the write (E11000): save() rejects, and the document
\* keeps its values and its modified paths.
StoreReject(d) ==
    /\ doc[d].pc = "writing"
    /\ DuplicateKey(d, Written(d))
    /\ doc' = [doc EXCEPT ![d].pc = "idle"]
    /\ saveErr' = [saveErr EXCEPT ![d] = "duplicateKey"]
    /\ UNCHANGED <<store, ghost, ahVars, errVars, tokVars>>

\* A mailbox of one's own: registrations that can only collide on the username.
OwnEmail(d) == IF d = "d1" THEN <<"X">> ELSE <<"y">>

\* The credential lifecycle: registrations, password and username changes, and
\* saves with every outcome of the hash and of the write.
NextUser ==
    \/ \E d \in Docs, u \in RawUsernames, p \in Plain : NewUser(d, u, OwnEmail(d), p)
    \/ \E d \in Docs, p \in Plain : AssignPassword(d, p)
    \/ \E d \in Docs, u \in RawUsernames : AssignUsername(d, u)
    \/ \E d \in Docs : Save(d)
    \/ \E d \in Docs : HashDone(d)
    \/ \E d \in Docs : HashFail(d)
    \/ \E d \in Docs : StoreAccept(d)
    \/ \E d \in Docs : StoreReject(d)

\* Registration attempts with every combination of username and email, saved
\* and retried in any interleaving of their suspension points.
NextReg ==
    \/ \E d \in Docs, u \in RawUsernames, e \in RawEmails, p \in Plain : NewUser(d, u, e, p)
    \/ \E d \in Docs, u \in RawUsernames : AssignUsername(d, u)
    \/ \E d \in Docs : Save(d)
    \/ \E d \in Docs : HashDone(d)
    \/ \E d \in Docs : HashFail(d)
    \/ \E d \in Docs : StoreAccept(d)
    \/ \E d \in Docs : StoreReject(d)

-----------------------------------------------------------------------------
(* Specifications, one per component                                       *)

InitAH   == IdleAH /\ IdleErr /\ IdleTok /\ IdleUser
InitE    == IdleAH /\ InitErr /\ IdleTok /\ IdleUser
InitT    == IdleAH /\ IdleErr /\ InitTok /\ IdleUser
InitU    == IdleAH /\ IdleErr /\ IdleTok /\ InitUser

SpecAH   == InitAH /\ [][NextAH]_vars
LiveAH   == SpecAH /\ \A r \in Reqs : WF_vars(RunCatch(r))
SpecErr  == InitE /\ [][NextErr]_vars
SpecTok  == InitT /\ [][NextTok]_vars
SpecUser == InitU /\ [][NextUser]_vars
SpecReg  == InitU /\ [][NextReg]_vars

Init == IdleAH /\ IdleErr /\ IdleTok /\ IdleUser
Next == NextAH \/ NextErr \/ NextTok \/ NextUser
Spec == Init /\ [][Next]_vars

-----------------------------------------------------------------------------
(* Properties                                                              *)

\* The invocations of next made by the wrapper itself.
WrapperCalls(r) == SelectSeq(ahNext[r], LAMBDA c : c.by = "wrapper")

\* C1: when the promise returned by the handler rejects with e, the wrapper
\* eventually invokes next, exactly once and with e, and the rejection is
\* consumed by the catch reaction. Before the reaction ran the wrapper has made
\* no call; after it ran it has made exactly the one call next(e).
C1_RejectionForwardedOnce ==
    /\ \A r \in Reqs :
          (ahPc[r] = "queued") ~>
              (ahPc[r] = "caught" /\ WrapperCalls(r) = <<NextCall("wrapper", ahErr[r])>>)
    /\ [](\A r \in Reqs :
            /\ (ahPc[r] \in {"pending", "queued"} => WrapperCalls(r) = <<>>)
            /\ (ahPc[r] = "caught" =>
                    WrapperCalls(r) = <<NextCall("wrapper", ahErr[r])>>))

\* A rejection with e2 was forwarded, for a handler that had used next itself.
C1_Witness ==
    \E r \in Reqs :
        /\ ahPc[r] = "caught"
        /\ ahErr[r] = "e2"
        /\ ahNext[r] = <<NextCall("handler", NoErr), NextCall("wrapper", "e2")>>

\* C2: no failure of the handler leaves the wrapper's call as a synchronous
\* exception: whatever the handler does, nothing escapes to the caller.
C2_NeverThrowsSynchronously == \A r \in Reqs : ahEscaped[r] = NoErr

\* C3: when the handler completes successfully the wrapper makes no call of
\* next; the calls of that run are the handler's own.
C3_NoWrapperCallOnSuccess ==
    \A r \in Reqs :
        (ahPc[r] = "fulfilled" \/ (ahPc[r] = "pending" /\ ahErr[r] = NoErr)) =>
            /\ WrapperCalls(r) = <<>>
            /\ Len(ahNext[r]) <= 1

\* A handler that called next itself has completed successfully.
C3_Witness ==
    \E r \in Reqs :
        /\ ahPc[r] = "fulfilled"
        /\ ahNext[r] = <<NextCall("handler", NoErr)>>

\* C4: the password of every record at rest is a bcrypt string produced by the
\* hook and is never one of the plaintexts assigned to the field.
C4_PasswordAtRestIsHashed ==
    \A d \in Docs :
        store[d].present =>
            /\ IsBcryptHash(store[d].password)
            /\ store[d].password \notin Plain
            /\ store[d].password # ghost[d].plain
            /\ store[d].password # ghost[d].storedPlain

\* Two records at rest, one of them written again after its password was
\* assigned anew (its salt differs from the first one drawn).
C4_Witness ==
    /\ \A d \in Docs : store[d].present /\ saveErr[d] = "ok"
    /\ \E d \in Docs : store[d].password = BcryptHash(<<"p">>, "s2")

\* C5: a save of a persisted record whose password equals the one at rest
\* never enters the hashing branch, and whatever that save writes, the
\* password at rest is the same string before and after.
C5_UnmodifiedPasswordKept ==
    [][\A d \in Docs :
          (/\ store[d].present
           /\ doc[d].pc \in {"idle", "writing"}
           /\ doc[d].password = store[d].password)
          => (/\ doc'[d].pc # "hashing"
              /\ store'[d].password = store[d].password)]_vars

\* A save with a changed username and an untouched password went through:
\* the record holds the new username and the hash it held before.
C5_Witness ==
    \E d \in Docs :
        /\ saveErr[d] = "ok"
        /\ store[d].username = <<"b">>
        /\ store[d].password = BcryptHash(<<"p">>, "s1")
        /\ \E o \in Docs \ {d} : store[o].present /\ store[o].username = <<"a">>
        /\ doc[d].password = store[d].password

\* C6: when bcrypt.hash fails the save stops there: the document is back with
\* its caller, the caller gets the failure, and nothing was written; as long as
\* that failure is the document's last outcome its record is untouched.
C6_HashFailureAbortsSave ==
    [][\A d \in Docs :
          /\ (/\ doc[d].pc = "hashing"
              /\ doc'[d].pc # "hashing"
              /\ doc'[d].password = doc[d].password)
             => (/\ doc'[d].pc = "idle"
                 /\ saveErr'[d] = "hashError"
                 /\ store' = store)
          /\ (saveErr[d] = "hashError" => store'[d] = store[d])]_vars

\* The hash failed during an update: the record still holds the old hash and
\* the document still holds the plaintext.
C6_Witness ==
    \E d \in Docs :
        /\ saveErr[d] = "hashError"
        /\ store[d].present
        /\ doc[d].password \in Plain
        /\ IsBcryptHash(store[d].password)

\* The canonical form of an identifier: without case and surrounding blanks.
Canon(str) == TrimRight(TrimLeft([i \in 1..Len(str) |-> LowerOf(str[i])]))

\* C7: no two records at rest have usernames that are equal up to case and
\* surrounding whitespace, or the same email: of two colliding registration
\* attempts at most one is persisted.
C7_UniqueUsernameAndEmail ==
    \A d1, d2 \in Docs :
        (d1 # d2 /\ store[d1].present /\ store[d2].present) =>
            /\ Canon(store[d1].username) # Canon(store[d2].username)
            /\ Canon(store[d1].email) # Canon(store[d2].email)
            /\ store[d1].username # store[d2].username
            /\ store[d1].email # store[d2].email

\* One attempt is persisted and the colliding one was rejected by the store.
C7_Witness ==
    \E d1, d2 \in Docs :
        /\ d1 # d2
        /\ store[d1].present
        /\ ~store[d2].present
        /\ saveErr[d2] = "duplicateKey"
        /\ doc[d2].username = store[d1].username
        /\ doc[d2].email # store[d1].email

\* C8: the access token signs exactly {_id, email, username, fullName} of the
\* record with the access secret and lifetime; the refresh token signs exactly
\* {_id} with the refresh secret and lifetime; neither carries password or
\* refreshToken.
C8_TokenPayloads ==
    /\ tokSigned.kind = "access" =>
          /\ DOMAIN tokSigned.payload = {"_id", "email", "username", "fullName"}
          /\ \A k \in DOMAIN tokSigned.payload : tokSigned.payload[k] = tokUser[k]
          /\ tokSigned.secret = tokEnv.ACCESS_TOKEN_SECRET
          /\ tokSigned.expiresIn = tokEnv.ACCESS_TOKEN_EXPIRY
    /\ tokSigned.kind = "refresh" =>
          /\ DOMAIN tokSigned.payload = {"_id"}
          /\ tokSigned.payload["_id"] = tokUser._id
          /\ tokSigned.secret = tokEnv.REFRESH_TOKEN_SECRET
          /\ tokSigned.expiresIn = tokEnv.REFRESH_TOKEN_EXPIRY
    /\ {"password", "refreshToken"} \cap DOMAIN tokSigned.payload = {}

\* A refresh token was signed in an environment whose secrets and lifetimes differ.
C8_Witness ==
    /\ tokSigned.kind = "refresh"
    /\ tokEnv.ACCESS_TOKEN_SECRET # tokEnv.REFRESH_TOKEN_SECRET
    /\ tokEnv.ACCESS_TOKEN_EXPIRY # tokEnv.REFRESH_TOKEN_EXPIRY
    /\ tokUser.refreshToken # ""

\* The fields of an instance other than its trace.
ApiErrorFieldsOk ==
    /\ errObj.success = FALSE
    /\ errObj.data = "null"
    /\ errObj.statusCode = errArgs.statusCode
    /\ errObj.errors = (IF errArgs.hasErrors THEN errArgs.errors ELSE <<>>)
    /\ errObj.message =
          (IF errArgs.hasMessage THEN errArgs.message ELSE "Something went wrong")

\* C9 as stated: every instance has success false, data null, the given status,
\* the given errors or the empty sequence, the given message or the fallback,
\* and the supplied trace whenever one is supplied, a captured one otherwise.
C9_SuppliedTraceAlwaysKept ==
    errObj.built =>
        /\ ApiErrorFieldsOk
        /\ errObj.stack = (IF errArgs.hasStack THEN errArgs.stack ELSE CapturedStack)

\* C9 amended: as above, but the trace is the supplied one only when the
\* supplied trace is a non-empty string; an empty one is replaced by a
\* captured trace like an omitted one.
C9_NonEmptyTraceKept ==
    errObj.built =>
        /\ ApiErrorFieldsOk
        /\ errObj.stack = (IF errArgs.hasStack /\ errArgs.stack # ""
                           THEN errArgs.stack ELSE CapturedStack)

\* An instance built from a status and a trace alone.
C9_Witness ==
    /\ errObj.built
    /\ ~errArgs.hasMessage
    /\ ~errArgs.hasErrors
    /\ errArgs.hasStack
    /\ errArgs.stack # ""
    /\ errObj.stack = errArgs.stack
    /\ errObj.message = "Something went wrong"

====
